---- MODULE Spec2Model ----
(***************************************************************************)
(* Parallel all-pairs shortest paths by repeated min-plus squaring         *)
(* (path-mpi.c).  Every MPI process holds the whole n x n matrix l         *)
(* (column-major: cell (i,j) is l[j*n+i]) and a private lnew; it squares   *)
(* its own tile and the processes merge with MPI_Allreduce.                *)
(***************************************************************************)
EXTENDS Integers, FiniteSets, Sequences, TLC

\* ---------------------------------------------------------------- bounds
MaxN == 3
\* graphs on 1..MaxN nodes are generated with any edge set of at most MaxEdges edges
MaxEdges == 3
\* graphs on MaxN+1..MaxChain nodes are the directed chain 0 -> 1 -> ... -> n-1
MaxChain == 4
\* world_size ranges over 1..MaxProcs, and npx*npy <= MaxProcs
MaxProcs == 4

iroot == 0         \* master processor (main)

VARIABLES
    n,             \* number of nodes
    npx, npy,      \* requested process grid
    world_size,    \* number of MPI processes
    adj,           \* the adjacency matrix gen_graph returned
    pc,            \* pc[p]: where process p is in main / shortest_paths
    coord,         \* coord[p]: <<coord[0], coord[1]>> of MPI_Cart_coords
    tile,          \* tile[p]: imin_, imax_, jmin_, jmax_
    l,             \* l[p]: process p's matrix l
    lnew,          \* lnew[p]: process p's matrix lnew
    mydone,        \* mydone[p]: result of the last square on p
    done,          \* done[p]: the loop variable done of p
    iter           \* iter[p]: loop iterations p has started

vars == <<n, npx, npy, world_size, adj, pc, coord, tile, l, lnew, mydone, done, iter>>

Procs == 0 .. (world_size - 1)
Cells(nn) == 0 .. (nn * nn - 1)

\* ------------------------------------------------------------ gen_graph
RECURSIVE SubsetsUpTo(_, _)
SubsetsUpTo(S, k) ==
    IF k = 0 \/ S = {} THEN {{}}
    ELSE LET x == CHOOSE y \in S : TRUE
             rest == S \ {x}
         IN  SubsetsUpTo(rest, k) \cup {T \cup {x} : T \in SubsetsUpTo(rest, k - 1)}

\* gen_graph: l[j*n+i] is 0 or 1, and l[j*n+j] = 0
OffDiag(nn) == {c \in Cells(nn) : (c \div nn) # (c % nn)}
Chain(nn) == [c \in Cells(nn) |-> IF (c \div nn) = (c % nn) + 1 THEN 1 ELSE 0]

gen_graph(nn) ==
    IF nn <= MaxN
    THEN {[c \in Cells(nn) |-> IF c \in E THEN 1 ELSE 0] :
              E \in SubsetsUpTo(OffDiag(nn), MaxEdges)}
    ELSE {Chain(nn)}

\* --------------------------------------------------------------- square
\* kloop with the loop bound one short (k < n-1): the last node is never an intermediate
RECURSIVE kloop_short(_, _, _, _, _, _)
kloop_short(nn, ll, i, j, k, lij) ==
    IF k >= nn - 1 THEN lij
    ELSE LET lkj == ll[j * nn + k]
             lik == ll[k * nn + i]
         IN  kloop_short(nn, ll, i, j, k + 1, IF lik + lkj < lij THEN lik + lkj ELSE lij)

\* kloop that stores lik+lkj without comparing it with lij
RECURSIVE kloop_nocmp(_, _, _, _, _, _)
kloop_nocmp(nn, ll, i, j, k, lij) ==
    IF k >= nn THEN lij
    ELSE kloop_nocmp(nn, ll, i, j, k + 1, ll[k * nn + i] + ll[j * nn + k])

\* the k loop of one cell: lij starts as lnew[jn+i], reads only l
RECURSIVE kloop(_, _, _, _, _, _)
kloop(nn, ll, i, j, k, lij) ==
    IF k >= nn THEN lij
    ELSE LET lkj == ll[j * nn + k]
             lik == ll[k * nn + i]
         IN  kloop(nn, ll, i, j, k + 1, IF lik + lkj < lij THEN lik + lkj ELSE lij)

InTile(t, nn, c) ==
    LET i == c % nn
        j == c \div nn
    IN  /\ t.imin_ <= i /\ i < t.imax_
        /\ t.jmin_ <= j /\ j < t.jmax_

\* square with the test lik + lkj <= lij: an equal sum also clears done
square_le(t, nn, ll, ln) ==
    LET out == [c \in Cells(nn) |->
                   IF InTile(t, nn, c)
                   THEN kloop(nn, ll, c % nn, c \div nn, 0, ln[c])
                   ELSE ln[c]]
    IN  [lnew |-> out,
         done |-> IF \E c \in Cells(nn) : InTile(t, nn, c) /\
                        \E k \in 0 .. (nn - 1) :
                            ll[k * nn + (c % nn)] + ll[(c \div nn) * nn + k] <= ln[c]
                  THEN 0 ELSE 1]

\* square that never clears done
square_done1(t, nn, ll, ln) ==
    LET out == [c \in Cells(nn) |->
                   IF InTile(t, nn, c)
                   THEN kloop(nn, ll, c % nn, c \div nn, 0, ln[c])
                   ELSE ln[c]]
    IN  [lnew |-> out, done |-> 1]

\* square that loops over the whole matrix instead of the tile
square_notile(t, nn, ll, ln) ==
    LET out == [c \in Cells(nn) |-> kloop(nn, ll, c % nn, c \div nn, 0, ln[c])]
    IN  [lnew |-> out, done |-> IF out = ln THEN 1 ELSE 0]

\* the body of the i loop reading lkj and lik from lnew instead of l
SquareCell_inplace(nn, ll, ln, c) ==
    [ln EXCEPT ![c] = kloop(nn, ln, c % nn, c \div nn, 0, ln[c])]

\* the body of the i loop for one cell c = j*n+i: lij = lnew[jn+i], the k loop
\* over l, then the store lnew[j*n+i] = lij
SquareCell(nn, ll, ln, c) ==
    [ln EXCEPT ![c] = kloop(nn, ll, c % nn, c \div nn, 0, ln[c])]

\* the cells of a tile in the order of the j and i loops: j outer, i inner
TileSeq(t, nn) ==
    LET w == t.imax_ - t.imin_
        h == t.jmax_ - t.jmin_
    IN  [x \in 1 .. (w * h) |->
            (t.jmin_ + ((x - 1) \div w)) * nn + t.imin_ + ((x - 1) % w)]

\* the j and i loops run cell after cell over the sequence cs (of length len),
\* from position x on, each store visible to the cells that follow
RECURSIVE SquareLoops(_, _, _, _, _, _)
SquareLoops(nn, ll, ln, cs, len, x) ==
    IF x > len THEN ln
    ELSE SquareLoops(nn, ll, SquareCell(nn, ll, ln, cs[x]), cs, len, x + 1)

\* square(imin_, jmin_, imax_, jmax_, n, l, lnew): the new lnew and the return value.
\* done is cleared exactly when some lij is lowered, that is when a cell of the
\* tile differs from what lnew held; the cells outside the tile are not written.
square(t, nn, ll, ln) ==
    LET out == [c \in Cells(nn) |->
                   IF InTile(t, nn, c)
                   THEN kloop(nn, ll, c % nn, c \div nn, 0, ln[c])
                   ELSE ln[c]]
    IN  [lnew |-> out, done |-> IF out = ln THEN 1 ELSE 0]

\* ----------------------------------------------- infinitize/deinfinitize
\* infinitize with n as the value for "no edge"
infinitize_n(nn, ll) == [c \in Cells(nn) |-> IF ll[c] = 0 THEN nn ELSE ll[c]]

infinitize(nn, ll) == [c \in Cells(nn) |-> IF ll[c] = 0 THEN nn + 1 ELSE ll[c]]

deinfinitize(nn, ll) == [c \in Cells(nn) |-> IF ll[c] = nn + 1 THEN 0 ELSE ll[c]]

\* the diagonal reset left out
ResetDiag_skip(nn, ll) == ll

\* for (int i = 0; i < n*n; i += n+1) l[i] = 0;
ResetDiag(nn, ll) == [c \in Cells(nn) |-> IF c % (nn + 1) = 0 THEN 0 ELSE ll[c]]

\* ------------------------------------------------------- tile (main)
\* AxisMin that forgets the remainder rows of the lower-indexed processes
AxisMin_norem(nx, np, ip) == (ip - 1) * (nx \div np)

\* one axis: nx = total, np = processes on the axis, ip = 1-based coordinate
AxisMin(nx, np, ip) ==
    LET q == nx \div np
        r == nx % np
    IN  IF ip <= r THEN (ip - 1) * (q + 1)
        ELSE r * (q + 1) + (ip - r - 1) * q

\* AxisLen that compares the 1-based coordinate as if it were 0-based
AxisLen_lt(nx, np, ip) ==
    LET q == nx \div np
        r == nx % np
    IN  IF ip < r THEN q + 1 ELSE q

AxisLen(nx, np, ip) ==
    LET q == nx \div np
        r == nx % np
    IN  IF ip <= r THEN q + 1 ELSE q

ComputeTile(nn, gx, gy, co) ==
    LET iproc == co[1] + 1
        jproc == co[2] + 1
    IN  [imin_ |-> AxisMin(nn, gx, iproc),
         imax_ |-> AxisMin(nn, gx, iproc) + AxisLen(nn, gx, iproc),
         jmin_ |-> AxisMin(nn, gy, jproc),
         jmax_ |-> AxisMin(nn, gy, jproc) + AxisLen(nn, gy, jproc)]

\* MPI_Cart_coords on dims (npx, npy): row-major rank order
CartCoords(gx, gy, rank) == <<rank \div gy, rank % gy>>

\* ------------------------------------------------------- MPI_Allreduce
MaxOf(S) == CHOOSE x \in S : \A y \in S : y <= x
MinOf(S) == CHOOSE x \in S : \A y \in S : x <= y

AllreduceMAX(nn, bufs) == [c \in Cells(nn) |-> MaxOf({bufs[q][c] : q \in DOMAIN bufs})]
\* the merge with MPI_MAX in place of MPI_MIN
AllreduceMIN_max(nn, bufs) == [c \in Cells(nn) |-> MaxOf({bufs[q][c] : q \in DOMAIN bufs})]

AllreduceMIN(nn, bufs) == [c \in Cells(nn) |-> MinOf({bufs[q][c] : q \in DOMAIN bufs})]
\* the reduction of the done flags with MPI_MAX in place of MPI_MIN
AllreduceMINflag_max(flags) == MaxOf({flags[q] : q \in DOMAIN flags})

AllreduceMINflag(flags) == MinOf({flags[q] : q \in DOMAIN flags})

\* ----------------------------------------------------------------- Init
NoTile == [imin_ |-> 0, imax_ |-> 0, jmin_ |-> 0, jmax_ |-> 0]

Init ==
    /\ n \in 1 .. MaxChain
    /\ world_size \in 1 .. MaxProcs
    /\ npx \in 1 .. MaxProcs
    /\ npy \in 1 .. MaxProcs
    /\ npx * npy <= MaxProcs
    /\ adj \in gen_graph(n)
    /\ pc = [p \in Procs |-> "start"]
    /\ coord = [p \in Procs |-> <<0, 0>>]
    /\ tile = [p \in Procs |-> NoTile]
    /\ l = [p \in Procs |-> adj]
    /\ lnew = [p \in Procs |-> [c \in Cells(n) |-> 0]]
    /\ mydone = [p \in Procs |-> 0]
    /\ done = [p \in Procs |-> 0]
    /\ iter = [p \in Procs |-> 0]

\* -------------------------------------------------------------- actions
\* main: if (npx*npy != world_size && irank == iroot) exit(-1)
CheckGrid(p) ==
    /\ pc[p] = "start"
    /\ pc' = [pc EXCEPT ![p] =
                 IF npx * npy # world_size /\ p = iroot THEN "exited" ELSE "cart_create"]
    /\ UNCHANGED <<n, npx, npy, world_size, adj, coord, tile, l, lnew, mydone, done, iter>>

\* MPI_Cart_create (collective over MPI_COMM_WORLD) and MPI_Cart_coords
CartCreate ==
    /\ \A p \in Procs : pc[p] = "cart_create"
    /\ coord' = [p \in Procs |-> CartCoords(npx, npy, p)]
    /\ pc' = [p \in Procs |-> "tile"]
    /\ UNCHANGED <<n, npx, npy, world_size, adj, tile, l, lnew, mydone, done, iter>>

\* main: the tile bounds, then the call of shortest_paths up to the first
\* MPI_Allreduce: infinitize, the diagonal reset, calloc of lnew
ShortestPathsInit(p) ==
    /\ pc[p] = "tile"
    /\ tile' = [tile EXCEPT ![p] = ComputeTile(n, npx, npy, coord[p])]
    /\ l' = [l EXCEPT ![p] = ResetDiag(n, infinitize(n, l[p]))]
    /\ lnew' = [lnew EXCEPT ![p] = [c \in Cells(n) |-> 0]]
    /\ pc' = [pc EXCEPT ![p] = "allreduce_max"]
    /\ UNCHANGED <<n, npx, npy, world_size, adj, coord, mydone, done, iter>>

\* MPI_Allreduce(l, lnew, n*n, MPI_INT, MPI_MAX, cart_comm)
SeedLnew ==
    /\ \A p \in Procs : pc[p] = "allreduce_max"
    /\ lnew' = [p \in Procs |-> AllreduceMAX(n, l)]
    /\ pc' = [p \in Procs |-> "square"]
    /\ UNCHANGED <<n, npx, npy, world_size, adj, coord, tile, l, mydone, done, iter>>

\* int mydone = square(irank, imin_, jmin_, imax_, jmax_, n, l, lnew)
SquareStep(p) ==
    /\ pc[p] = "square"
    /\ LET r == square(tile[p], n, l[p], lnew[p])
       IN  /\ lnew' = [lnew EXCEPT ![p] = r.lnew]
           /\ mydone' = [mydone EXCEPT ![p] = r.done]
    /\ iter' = [iter EXCEPT ![p] = @ + 1]
    /\ pc' = [pc EXCEPT ![p] = "allreduce_done"]
    /\ UNCHANGED <<n, npx, npy, world_size, adj, coord, tile, l, done>>

\* MPI_Allreduce(&mydone, &done, 1, MPI_INT, MPI_MIN, cart_comm)
ReduceDone ==
    /\ \A p \in Procs : pc[p] = "allreduce_done"
    /\ done' = [p \in Procs |-> AllreduceMINflag(mydone)]
    /\ pc' = [p \in Procs |-> "allreduce_merge"]
    /\ UNCHANGED <<n, npx, npy, world_size, adj, coord, tile, l, lnew, mydone, iter>>

\* the merge with deinfinitize applied inside the loop body
Merge_deinf ==
    /\ \A p \in Procs : pc[p] = "allreduce_merge"
    /\ l' = [p \in Procs |-> deinfinitize(n, AllreduceMIN(n, lnew))]
    /\ pc' = [p \in Procs |-> IF done[p] # 0 THEN "deinfinitize" ELSE "square"]
    /\ UNCHANGED <<n, npx, npy, world_size, adj, coord, tile, lnew, mydone, done, iter>>

\* the merge as a local step: a process takes the minimum and goes on without
\* waiting for the others
Merge_local ==
    \E p \in Procs :
        /\ pc[p] = "allreduce_merge"
        /\ l' = [l EXCEPT ![p] = AllreduceMIN(n, lnew)]
        /\ pc' = [pc EXCEPT ![p] = IF done[p] # 0 THEN "deinfinitize" ELSE "square"]
        /\ UNCHANGED <<n, npx, npy, world_size, adj, coord, tile, lnew, mydone, done, iter>>

\* MPI_Allreduce(lnew, l, n*n, MPI_INT, MPI_MIN, cart_comm), then the loop test !done
Merge ==
    /\ \A p \in Procs : pc[p] = "allreduce_merge"
    /\ l' = [p \in Procs |-> AllreduceMIN(n, lnew)]
    /\ pc' = [p \in Procs |-> IF done[p] # 0 THEN "deinfinitize" ELSE "square"]
    /\ UNCHANGED <<n, npx, npy, world_size, adj, coord, tile, lnew, mydone, done, iter>>

\* free(lnew); deinfinitize(...); return
Deinfinitize(p) ==
    /\ pc[p] = "deinfinitize"
    /\ l' = [l EXCEPT ![p] = deinfinitize(n, l[p])]
    /\ pc' = [pc EXCEPT ![p] = "returned"]
    /\ UNCHANGED <<n, npx, npy, world_size, adj, coord, tile, lnew, mydone, done, iter>>

Next ==
    \/ \E p \in Procs : CheckGrid(p)
    \/ CartCreate
    \/ \E p \in Procs : ShortestPathsInit(p)
    \/ SeedLnew
    \/ \E p \in Procs : SquareStep(p)
    \/ ReduceDone
    \/ Merge
    \/ \E p \in Procs : Deinfinitize(p)

Spec == Init /\ [][Next]_vars


\* ----------------------------------------------------------- properties
Nodes == 0 .. (n - 1)
ValidGrid == npx * npy = world_size
InLoop(p) == pc[p] \in {"square", "allreduce_done", "allreduce_merge"}
LoopExited(p) == pc[p] \in {"deinfinitize", "returned"}
Tiled(p) == pc[p] \notin {"start", "exited", "cart_create", "tile"}

\* number of edges on a shortest directed path from i to j in the graph a
\* (an edge u -> v is a[v*nn+u] = 1); 0 when i = j or no path exists
Succ(nn, a, S) == S \cup {v \in 0 .. (nn - 1) : \E u \in S : a[v * nn + u] = 1}

RECURSIVE HopsFrom(_, _, _, _, _)
HopsFrom(nn, a, S, j, k) ==
    IF j \in S THEN k
    ELSE IF Succ(nn, a, S) = S THEN 0
    ELSE HopsFrom(nn, a, Succ(nn, a, S), j, k + 1)

PathLen(nn, a, i, j) == HopsFrom(nn, a, {i}, j, 0)

\* C1: when shortest_paths has returned on a process, l[j*n+i] is the number of
\* edges on a shortest directed path from i to j, 0 if there is none, and 0 on
\* the diagonal.
C1_ShortestPaths ==
    \A p \in Procs : pc[p] = "returned" =>
        \A i \in Nodes, j \in Nodes : l[p][j * n + i] = PathLen(n, adj, i, j)

\* a 2x2 run has returned a matrix with a distance of at least 2 and a pair without a path
C1_Witness ==
    \E p \in Procs :
        /\ pc[p] = "returned" /\ npx = 2 /\ npy = 2
        /\ \E c \in Cells(n) : l[p][c] >= 2
        /\ \E i \in Nodes, j \in Nodes : i # j /\ l[p][j * n + i] = 0

\* the run of shortest_paths on a 1x1 grid: one process owns the whole matrix
FullTile == ComputeTile(n, 1, 1, <<0, 0>>)

RECURSIVE SerialLoop(_, _)
SerialLoop(ll, ln) ==
    LET r == square(FullTile, n, ll, ln)
    IN  IF r.done # 0 THEN r.lnew ELSE SerialLoop(r.lnew, r.lnew)

SerialResult ==
    LET l0 == ResetDiag(n, infinitize(n, adj))
    IN  deinfinitize(n, SerialLoop(l0, l0))

\* C2: the final matrix is the same on every process and the same as the one a
\* 1x1 grid computes from the same adjacency matrix, so it is the same for every grid.
C2_GridIndependent ==
    LET returned == {p \in Procs : pc[p] = "returned"}
    IN  returned # {} =>
            LET serial == SerialResult
            IN  \A p \in returned : l[p] = serial /\ \A q \in returned : l[q] = l[p]

\* all four processes of a 2x2 run have returned, and a cell was improved by squaring
C2_Witness ==
    /\ npx = 2 /\ npy = 2
    /\ \A p \in Procs : pc[p] = "returned"
    /\ \E c \in Cells(n) : l[0][c] >= 2

\* C3: once every process has computed its tile, every cell (i,j) of
\* [0,n) x [0,n) lies in the tile of exactly one process.
C3_TilesPartition ==
    (\A p \in Procs : Tiled(p)) =>
        \A c \in Cells(n) : Cardinality({p \in Procs : InTile(tile[p], n, c)}) = 1

\* tiles are computed on a 2x2 grid that n does not divide, and on a grid with
\* more processes on an axis than rows (an empty tile)
C3_Witness ==
    /\ \A p \in Procs : Tiled(p)
    /\ \/ npx = 2 /\ npy = 2 /\ n = 3
       \/ \E p \in Procs : tile[p].imin_ = tile[p].imax_ \/ tile[p].jmin_ = tile[p].jmax_


CeilLog2(x) == CHOOSE s \in 0 .. x : 2 ^ s >= x /\ (s = 0 \/ 2 ^ (s - 1) < x)

\* C4: no process executes more than ceil(log2 n) + 1 iterations of the
\* convergence loop.
C4_IterationBound == \A p \in Procs : iter[p] <= CeilLog2(n) + 1

\* a process has left the loop after exactly ceil(log2 n) + 1 iterations on 4 or more nodes
C4_Witness ==
    \E p \in Procs : LoopExited(p) /\ n >= 4 /\ iter[p] = CeilLog2(n) + 1

\* C5 as stated, for graphs on two or more nodes: the loop has exited after at
\* most ceil(log2 n) rounds.  (With n = 1 the bound is 0 and the loop, which
\* always runs once, exceeds it as well.)
C5_Original == \A p \in Procs : (LoopExited(p) /\ n >= 2) => iter[p] <= CeilLog2(n)

\* C5 amended: only the first ceil(log2 n) rounds can report an improvement
\* (done = 0), and the loop exits after at most ceil(log2 n) + 1 rounds, the
\* last one detecting convergence.
C5_Amended ==
    \A p \in Procs :
        /\ (pc[p] = "allreduce_merge" /\ done[p] = 0) => iter[p] <= CeilLog2(n)
        /\ LoopExited(p) => iter[p] <= CeilLog2(n) + 1

\* round ceil(log2 n) of a run on 4 or more nodes still reported an improvement
C5_Witness ==
    \E p \in Procs :
        pc[p] = "allreduce_merge" /\ done[p] = 0 /\ n >= 4 /\ iter[p] = CeilLog2(n)

\* C6 as stated: when npx*npy differs from the number of processes, no process
\* gets past the check: none calls MPI_Cart_create, computes a tile or enters
\* the loop.
C6_AbortTogether ==
    ~ValidGrid => \A p \in Procs : pc[p] \in {"start", "exited"}

\* C7: while a process is in the loop, no step raises a cell of its l (the
\* merged matrix) or of its lnew (what square stores).
C7_Monotone ==
    [][\A p \in Procs : InLoop(p) =>
          \A c \in Cells(n) : l'[p][c] <= l[p][c] /\ lnew'[p][c] <= lnew[p][c]]_vars

\* in the second round of a multi-process run the merged matrix holds a cell
\* lower than its initial value
C7_Witness ==
    \E p \in Procs :
        /\ InLoop(p) /\ iter[p] >= 2 /\ world_size >= 2
        /\ \E c \in Cells(n) : l[p][c] < ResetDiag(n, infinitize(n, adj))[c]

\* C8: when the loop has exited and l still uses the n+1 sentinel, l satisfies
\* the triangle inequality.
C8_Triangle ==
    \A p \in Procs : pc[p] = "deinfinitize" =>
        \A i \in Nodes, j \in Nodes, k \in Nodes :
            l[p][j * n + i] <= l[p][k * n + i] + l[p][j * n + k]

\* a multi-process run has left the loop with a sentinel cell and a path of 2 or more edges
C8_Witness ==
    \E p \in Procs :
        /\ pc[p] = "deinfinitize" /\ world_size >= 2
        /\ \E c \in Cells(n) : l[p][c] = n + 1
        /\ \E c \in Cells(n) : l[p][c] >= 2 /\ l[p][c] <= n

\* C9: after deinfinitize every diagonal entry is 0.
C9_ZeroDiagonal ==
    \A p \in Procs : pc[p] = "returned" => \A i \in Nodes : l[p][i * n + i] = 0

\* shortest_paths has returned on a graph with a cycle through two nodes
C9_Witness ==
    \E p \in Procs :
        /\ pc[p] = "returned"
        /\ \E i \in Nodes, j \in Nodes : i # j /\ adj[j * n + i] = 1 /\ adj[i * n + j] = 1

\* C10: right after the round that reported convergence, one more round
\* (square on every tile, then the merge) reports convergence on every
\* process and changes no cell of lnew or of l.
C10_FixedPoint ==
    (\A p \in Procs : pc[p] = "deinfinitize") =>
        LET r == [p \in Procs |-> square(tile[p], n, l[p], lnew[p])]
        IN  \A p \in Procs :
                /\ r[p].done = 1
                /\ r[p].lnew = lnew[p]
                /\ AllreduceMIN(n, [q \in Procs |-> r[q].lnew]) = l[p]

\* a 4-process run has converged after two or more rounds
C10_Witness ==
    /\ \A p \in Procs : pc[p] = "deinfinitize"
    /\ world_size = 4
    /\ iter[0] >= 2

\* C11: the flag square returns on a process is 1 exactly when no cell of its
\* tile was lowered in that round (lnew kept its value, which in the tile is the
\* value of l); a process leaves the loop at the merge exactly when the flags of
\* all processes are 1; so the processes leave in the same round.
C11_FlagsAndExit ==
    /\ [](\A p \in Procs : pc[p] \in {"allreduce_done", "allreduce_merge"} =>
             (mydone[p] = 1 <=>
                 \A c \in Cells(n) : InTile(tile[p], n, c) => lnew[p][c] = l[p][c]))
    /\ [](\A p \in Procs, q \in Procs : LoopExited(p) => LoopExited(q))
    /\ [][\A p \in Procs :
             /\ (pc[p] = "square" /\ pc'[p] = "allreduce_done") =>
                    (mydone'[p] = 1 <=>
                        \A c \in Cells(n) :
                            InTile(tile[p], n, c) => lnew'[p][c] = lnew[p][c])
             /\ (pc[p] = "allreduce_merge" /\ pc'[p] # "allreduce_merge") =>
                    (pc'[p] = "deinfinitize" <=> \A q \in Procs : mydone[q] = 1)]_vars

\* at the merge of a round one process reports an improvement and another none
C11_Witness ==
    \E p \in Procs, q \in Procs :
        pc[p] = "allreduce_merge" /\ mydone[p] = 1 /\ mydone[q] = 0

\* C12 as stated: when square has returned on a process, the flag is 1 exactly
\* when that process's l and lnew are identical.
C12_ReturnIffIdentical ==
    \A p \in Procs : pc[p] = "allreduce_done" => (mydone[p] = 1 <=> l[p] = lnew[p])


\* the process whose tile holds cell c
Owner(c) == CHOOSE p \in Procs : InTile(tile[p], n, c)

\* C13: at the merge of a round no process holds in lnew a value below the
\* one of the cell's owner, and the merge leaves in l, on every process, the
\* owner's value of every cell.
C13_MergeTakesOwner ==
    [][(\A p \in Procs : pc[p] = "allreduce_merge") =>
          \A c \in Cells(n) :
              /\ \A q \in Procs : lnew[q][c] >= lnew[Owner(c)][c]
              /\ \A p \in Procs : l'[p][c] = lnew[Owner(c)][c]]_vars

\* after a merge a process other than the owner still holds a higher, stale
\* value of a cell in lnew, and l holds the owner's value
C13_Witness ==
    \E p \in Procs, q \in Procs, c \in Cells(n) :
        /\ pc[p] = "square" /\ pc[q] = "square" /\ iter[p] >= 1 /\ iter[q] = iter[p]
        /\ InTile(tile[p], n, c)
        /\ lnew[q][c] > lnew[p][c]
        /\ l[q][c] = lnew[p][c]

\* C14: a call of square changes no entry of l and no entry of lnew outside the
\* caller's tile, and a cell it changes lies in the tile of no other process.
C14_SquareFrame ==
    [][\A p \in Procs : (pc[p] = "square" /\ pc'[p] = "allreduce_done") =>
          /\ l' = l
          /\ \A q \in Procs : q # p => lnew'[q] = lnew[q]
          /\ \A c \in Cells(n) : lnew'[p][c] # lnew[p][c] =>
                 /\ InTile(tile[p], n, c)
                 /\ \A q \in Procs : q # p => ~InTile(tile[q], n, c)]_vars

\* square has lowered a cell on a process of a multi-process run
C14_Witness ==
    \E p \in Procs : pc[p] = "allreduce_done" /\ mydone[p] = 0 /\ world_size >= 2


\* C15: a process applies deinfinitize only when every process has reported
\* convergence, and after it nothing touches its matrix again (so it is applied
\* once); a matrix that square or the merge works on was never deinfinitized:
\* it holds no 0 off the diagonal.
C15_DeinfinitizeOnce ==
    /\ [](\A p \in Procs : InLoop(p) => \A c \in OffDiag(n) : l[p][c] # 0)
    /\ [][\A p \in Procs :
             /\ (pc[p] # "returned" /\ pc'[p] = "returned") =>
                    /\ \A q \in Procs : mydone[q] = 1 /\ done[q] = 1
                    /\ pc[p] = "deinfinitize"
                    /\ l'[p] = deinfinitize(n, l[p])
             /\ pc[p] = "returned" =>
                    /\ pc'[p] = "returned"
                    /\ l'[p] = l[p] /\ lnew'[p] = lnew[p] /\ iter'[p] = iter[p]]_vars

\* a process has applied deinfinitize after two or more rounds and it turned a
\* sentinel into 0
C15_Witness ==
    \E p \in Procs :
        /\ pc[p] = "returned" /\ iter[p] >= 2
        /\ \E c \in OffDiag(n) : l[p][c] = 0

\* C16: on each axis with g processes, q = n / g and r = n % g, a process whose
\* 0-based coordinate is below r owns q+1 indices and any other owns q; a
\* process owns at least one row (column) whenever g <= n.
C16_AxisSizes ==
    \A p \in Procs : Tiled(p) =>
        /\ tile[p].imax_ - tile[p].imin_ =
               (n \div npx) + (IF coord[p][1] < n % npx THEN 1 ELSE 0)
        /\ tile[p].jmax_ - tile[p].jmin_ =
               (n \div npy) + (IF coord[p][2] < n % npy THEN 1 ELSE 0)
        /\ npx <= n => tile[p].imax_ > tile[p].imin_
        /\ npy <= n => tile[p].jmax_ > tile[p].jmin_

\* tiles are computed on an axis that n does not divide: one process owns one
\* index more than another
C16_Witness ==
    \E p \in Procs, q \in Procs :
        /\ Tiled(p) /\ Tiled(q)
        /\ tile[p].imax_ - tile[p].imin_ = tile[q].imax_ - tile[q].imin_ + 1
        /\ coord[p][1] < coord[q][1]
        /\ tile[q].imax_ > tile[q].imin_


\* C17: within a round the value square stores for a cell is computed from the
\* round-start l alone, not from a value of lnew stored for another cell in the
\* same round: running the loops cell after cell in the order of the code, in
\* the reverse order, or with any two cells exchanged gives the same lnew, the
\* one the square step stores.
C17_OrderIndependent ==
    [][\A p \in Procs : (pc[p] = "square" /\ pc'[p] = "allreduce_done") =>
          LET cs  == TileSeq(tile[p], n)
              len == (tile[p].imax_ - tile[p].imin_) * (tile[p].jmax_ - tile[p].jmin_)
              rev == [x \in 1 .. len |-> cs[len + 1 - x]]
              fwd == SquareLoops(n, l[p], lnew[p], cs, len, 1)
          IN  /\ lnew'[p] = fwd
              /\ SquareLoops(n, l[p], lnew[p], rev, len, 1) = fwd
              /\ \A x \in 1 .. len :
                     fwd[cs[x]] = kloop(n, l[p], cs[x] % n, cs[x] \div n, 0, l[p][cs[x]])
              /\ \A x \in 1 .. len, y \in 1 .. len : x < y =>
                     SquareCell(n, l[p], SquareCell(n, l[p], lnew[p], cs[x]), cs[y])
                       = SquareCell(n, l[p], SquareCell(n, l[p], lnew[p], cs[y]), cs[x])]_vars

\* a square step has lowered two cells of its tile in one round
C17_Witness ==
    \E p \in Procs : pc[p] = "allreduce_done" /\
        \E c \in Cells(n), d \in Cells(n) :
            /\ c # d
            /\ InTile(tile[p], n, c) /\ InTile(tile[p], n, d)
            /\ lnew[p][c] < l[p][c] /\ lnew[p][d] < l[p][d]


\* C18: no process is more than one square ahead of another, and one that is
\* ahead has only finished its square while the other is past the merge and
\* has yet to start its own; a process about to start the square of a round
\* after the first holds the same l as every other process, and that l is the
\* merge of the previous round: for each cell the value its owner computed.
C18_RoundBarrier ==
    /\ \A p \in Procs, q \in Procs : iter[p] > iter[q] =>
           /\ iter[p] = iter[q] + 1
           /\ pc[p] = "allreduce_done"
           /\ pc[q] = "square"
    /\ \A p \in Procs : (pc[p] = "square" /\ iter[p] >= 1) =>
           \A q \in Procs :
               /\ pc[q] \in {"square", "allreduce_done"}
               /\ l[q] = l[p]
               /\ \A c \in Cells(n) : InTile(tile[q], n, c) =>
                      IF iter[q] = iter[p] THEN lnew[q][c] = l[p][c]
                                           ELSE lnew[q][c] <= l[p][c]

\* one process has finished the square of the third round while another, past
\* the merge of the second round, has not started it
C18_Witness ==
    \E p \in Procs, q \in Procs :
        /\ pc[p] = "allreduce_done" /\ iter[p] = 3
        /\ pc[q] = "square" /\ iter[q] = 2
        /\ lnew[p] # l[q]


\* C19: from the end of initialization until deinfinitize is applied, the
\* processes inside shortest_paths hold one and the same l, and every entry of
\* it is either n+1 or the length of a shortest path between its nodes, a value
\* in 0..n-1 (0 only on the diagonal): never n, never above n+1, never longer
\* than the shortest path. When the loop has exited the entries n+1 are exactly
\* the pairs with no path.
C19_SentinelOrExact ==
    LET ps == {p \in Procs : pc[p] = "allreduce_max" \/ InLoop(p) \/ pc[p] = "deinfinitize"}
    IN  ps # {} =>
            LET m == l[CHOOSE p \in ps : TRUE]
            IN  /\ \A p \in ps : l[p] = m
                /\ \A i \in Nodes, j \in Nodes :
                       LET d == PathLen(n, adj, i, j)
                           v == m[j * n + i]
                       IN  /\ v = n + 1 \/ (v = d /\ v <= n - 1 /\ (i = j <=> v = 0))
                           /\ (\E p \in ps : pc[p] = "deinfinitize") =>
                                  (v = n + 1 <=> (i # j /\ d = 0))

\* after a merge the matrix holds a pair not yet connected that has a path, a
\* pair with no path, and a distance of two or more
C19_Witness ==
    \E p \in Procs :
        /\ pc[p] = "square" /\ iter[p] >= 1
        /\ \E i \in Nodes, j \in Nodes :
               l[p][j * n + i] = n + 1 /\ PathLen(n, adj, i, j) >= 3
        /\ \E i \in Nodes, j \in Nodes :
               i # j /\ l[p][j * n + i] = n + 1 /\ PathLen(n, adj, i, j) = 0
        /\ \E c \in Cells(n) : l[p][c] >= 2 /\ l[p][c] <= n - 1


====
